---------------------------- MODULE Spec2Model ----------------------------
(***************************************************************************)
(* Model of the event bus (src/web_ui/events/event_bus.py), of the         *)
(* execution tracer (src/web_ui/observability/tracer.py, trace_models.py), *)
(* of the cost calculator (src/web_ui/observability/cost_calculator.py)    *)
(* and of the MCP client of the controller                                 *)
(* (src/web_ui/controller/custom_controller.py).                           *)
(*                                                                         *)
(* Python objects live in heaps indexed by small integers (a span id is    *)
(* the index of the TraceSpan object, a trace id the index of the          *)
(* ExecutionTrace object), so that the aliasing between span_stack and     *)
(* ExecutionTrace.spans is kept.  None is modelled by the integer -1 for   *)
(* numeric fields and by NoneStr for message fields.  Texts are sequences  *)
(* of pieces of text; amounts of money are counted in 1/100000 USD.        *)
(***************************************************************************)
EXTENDS Integers, Sequences, FiniteSets, TLC

(***************************************************************************)
(* Bounds of the model.                                                    *)
(***************************************************************************)
NHandlers == 2
MaxPublish == 2
MaxClock == 2
MaxSpans == 2
MaxNest == 3
MaxAdded == 2
MaxTraces == 1
MaxStarts == 2
NTasks == 2

\* coroutines that call stop_processing and close
NCallers == 2

\* tasks start_processing creates
MaxTasks == 2

\* calls of close that are begun
MaxClosed == 1

\* EventBus objects get_event_bus may construct
MaxCreated == 2

\* the small token counts of a call of calculate_llm_cost
MaxTokens == 1

\* calls of calculate_llm_cost
MaxCalls == 2

None == -1

\* EventType (two members of the enumeration are enough to tell types apart)
EventTypes == {"agent.start", "agent.step"}

Handlers == 1..NHandlers

\* the caller of a bus operation: the application, or a handler invocation
\* <<p, h>> (handler h running for publish p)
External == <<0, 0>>

VARIABLES
    env,            \* the environment variable EVENT_BUS_BACKEND
    event_bus,      \* the module global _event_bus: a bus (its number) or None
    created,        \* how many EventBus objects get_event_bus has constructed
    processing_task, \* EventBus._processing_task: an index of ptasks, or None
    ptasks,         \* the tasks start_processing has created, in order
    callers,        \* the coroutines that call stop_processing and close
    closed,         \* how many times redis.close() has been awaited to its end
    lastCall,       \* the call that returned in the last step, if one did
    cost_calls,     \* the calls of calculate_llm_cost, with their results
    mcp_server_config, \* CustomController.mcp_server_config
    mcp_client,     \* CustomController.mcp_client
    actions,        \* the names in registry.registry.actions
    mcp_op,         \* the method of the controller that ran last
    subscribers,    \* EventBus._subscribers: dict EventType -> set of handlers
    lock,           \* EventBus._lock is held (by a coroutine that is suspended)
    pubs,           \* the publish calls that fanned out in process, in call order
    requested,      \* the backend argument the EventBus was constructed with
    backend,        \* EventBus.backend
    redis,          \* the bus has its attribute redis (the client was created)
    rpubs,          \* the publish calls that took the Redis path, in call order
    now,            \* what time.time() returns
    spans,          \* the TraceSpan objects; a span's index is its span_id
    traces,         \* the ExecutionTrace objects; an index is a trace_id
    current_trace,  \* AgentTracer.current_trace: a trace index, or None
    span_stack,     \* AgentTracer.span_stack: span indices, innermost last
    scopes,         \* per coroutine, the span scopes it is inside of
    lastExit,       \* the span scope just left, and what came out of it
    added           \* the spans handed to add_span, per trace, in call order

redisVars == <<requested, backend, redis, rpubs>>

busVars == <<subscribers, lock, pubs, requested, backend, redis, rpubs>>

traceVars == <<now, spans, traces, current_trace, span_stack, scopes, lastExit, added>>

lifeVars == <<env, event_bus, created, processing_task, ptasks, callers, closed,
              lastCall>>

costVars == <<cost_calls>>

mcpVars == <<mcp_server_config, mcp_client, actions, mcp_op>>

extVars == <<lifeVars, costVars, mcpVars>>

vars == <<subscribers, lock, pubs, requested, backend, redis, rpubs,
          now, spans, traces, current_trace, span_stack, scopes, lastExit, added,
          env, event_bus, created, processing_task, ptasks, callers, closed,
          lastCall, cost_calls, mcp_server_config, mcp_client, actions, mcp_op>>

-----------------------------------------------------------------------------
(***************************************************************************)
(* EventBus, in-memory backend                                             *)
(***************************************************************************)

\* state of one handler invocation of a publish
\*   "none"      the handler is not in the fan-out of the publish
\*   "pending"   its task was created by gather and has not run yet
\*   "running"   the handler body has started and not finished
\*   "awaiting"  the handler body awaits a publish it made itself
\*   "returned" / "raised" / "cancelled"   how the handler body ended
Finished == {"returned", "raised", "cancelled"}

\* dict update self._subscribers[t] = s
DictPut(d, t, s) == [k \in DOMAIN d \cup {t} |-> IF k = t THEN s ELSE d[k]]

\* mutant: subscribing a handler that is subscribed already drops it
SubscribeTableToggle(subs, t, h) ==
    LET cur == IF t \in DOMAIN subs THEN subs[t] ELSE {}
    IN  DictPut(subs, t, IF h \in cur THEN cur \ {h} ELSE cur \cup {h})

\* EventBus.subscribe: create the set on first use, then set.add
SubscribeTable(subs, t, h) ==
    LET cur == IF t \in DOMAIN subs THEN subs[t] ELSE {}
    IN  DictPut(subs, t, cur \cup {h})

\* mutant: unsubscribe empties the set of the type
UnsubscribeTableDropsType(subs, t, h) ==
    IF t \in DOMAIN subs THEN DictPut(subs, t, {}) ELSE subs

\* EventBus.unsubscribe: set.discard, only when the type has a set
UnsubscribeTable(subs, t, h) ==
    IF t \in DOMAIN subs THEN DictPut(subs, t, subs[t] \ {h}) ELSE subs

\* mutant: the fan-out ignores the event type
FanOutAnyType(subs, t) == UNION {subs[k] : k \in DOMAIN subs}

\* mutant: an event nobody subscribed to goes to every subscriber
FanOutOrAll(subs, t) ==
    IF t \in DOMAIN subs /\ subs[t] # {} THEN subs[t]
    ELSE UNION {subs[k] : k \in DOMAIN subs}

\* _publish_memory: handlers = list(self._subscribers[event.event_type])
FanOut(subs, t) == IF t \in DOMAIN subs THEN subs[t] ELSE {}

\* _safe_handle: the result of the task wrapping one handler.  Exception is
\* caught and logged; CancelledError is a BaseException and passes through.
SafeHandle(outcome) ==
    CASE outcome = "returned" -> "ok"
      [] outcome = "raised" -> "ok"
      [] outcome = "cancelled" -> "cancelled"
      [] OTHER -> "unfinished"

\* results of the tasks gather waits for
TaskResults(pub) == {SafeHandle(pub.hst[h]) : h \in pub.fanout}

\* mutant: gather(..., return_exceptions=False)
GatherRaise(results) ==
    IF "cancelled" \in results THEN "raised"
    ELSE IF "unfinished" \in results THEN "wait"
    ELSE "ok"

\* asyncio.gather(*tasks, return_exceptions=True): done when every task is
\* done, and failures of the tasks are results, not raised
Gather(results) == IF "unfinished" \in results THEN "wait" ELSE "ok"

\* mutant: handlers awaited one after the other
CanStartInOrder(pub, h) ==
    /\ pub.hst[h] = "pending"
    /\ \A g \in pub.fanout : g < h => pub.hst[g] \in Finished

\* gather wraps every coroutine in a task at once: each is runnable
CanStart(pub, h) == pub.hst[h] = "pending"

\* mutant: publish never takes the Redis path
UsesRedisNever(b) == FALSE

\* publish: if self.backend == "redis"
UsesRedis(b) == b = "redis"

\* the handler invocations whose body is executing
RunningHandlers ==
    {c \in (1..Len(pubs)) \X Handlers : pubs[c[1]].hst[c[2]] = "running"}

Callers == {External} \cup RunningHandlers

\* mutant: publish holds self._lock from the call until gather is done
HoldsLockWhileGathering(pub) == pub.pc = "gather"

\* publish and _publish_memory never enter "async with self._lock": a
\* publish holds the lock at no point
HoldsLock(pub) == FALSE

\* asyncio.Lock.locked(): some coroutine is inside "async with self._lock"
Locked == lock \/ \E p \in 1..Len(pubs) : HoldsLock(pubs[p])

\* subscribe and unsubscribe take the lock, change the table and release
\* the lock without suspending in between.  Any coroutine may call them at
\* any time: the application, or a handler that is running for a publish.
Subscribe(t, h) ==
    /\ ~Locked
    /\ subscribers' = SubscribeTable(subscribers, t, h)
    /\ UNCHANGED <<lock, pubs, redisVars, traceVars, extVars>>

Unsubscribe(t, h) ==
    /\ ~Locked
    /\ subscribers' = UnsubscribeTable(subscribers, t, h)
    /\ UNCHANGED <<lock, pubs, redisVars, traceVars, extVars>>

\* publish -> _publish_memory (the backend is not "redis") up to the await
\* of gather.  With no task to
\* wait for, gather is done at once and publish returns without suspending.
\* subsAt records what the table holds for the type at the call.
Publish(c, t) ==
    /\ ~UsesRedis(backend)
    /\ c \in Callers
    /\ Len(pubs) < MaxPublish
    /\ LET fan == FanOut(subscribers, t)
           pub == [etype |-> t, caller |-> c, fanout |-> fan,
                   subsAt |-> IF t \in DOMAIN subscribers THEN subscribers[t] ELSE {},
                   hst |-> [h \in Handlers |-> IF h \in fan THEN "pending" ELSE "none"],
                   pc |-> IF fan = {} THEN "returned" ELSE "gather",
                   result |-> IF fan = {} THEN "ok" ELSE "none"]
           blocked == IF c # External /\ fan # {}
                      THEN [pubs EXCEPT ![c[1]].hst[c[2]] = "awaiting"]
                      ELSE pubs
       IN  pubs' = Append(blocked, pub)
    /\ UNCHANGED <<subscribers, lock, redisVars, traceVars, extVars>>

\* the event loop runs the task of handler h of publish p for the first time
HandlerStart(p, h) ==
    /\ p \in 1..Len(pubs)
    /\ pubs[p].pc = "gather"
    /\ CanStart(pubs[p], h)
    /\ pubs' = [pubs EXCEPT ![p].hst[h] = "running"]
    /\ UNCHANGED <<subscribers, lock, redisVars, traceVars, extVars>>

\* the handler body ends: it returns, raises an Exception, or is cancelled
HandlerFinish(p, h, outcome) ==
    /\ <<p, h>> \in RunningHandlers
    /\ outcome \in Finished
    /\ pubs' = [pubs EXCEPT ![p].hst[h] = outcome]
    /\ UNCHANGED <<subscribers, lock, redisVars, traceVars, extVars>>

\* gather is done: publish resumes and returns to its caller
PublishReturn(p) ==
    /\ p \in 1..Len(pubs)
    /\ pubs[p].pc = "gather"
    /\ Gather(TaskResults(pubs[p])) # "wait"
    /\ LET c == pubs[p].caller
           done == [pubs EXCEPT ![p].pc = "returned",
                                ![p].result = Gather(TaskResults(pubs[p]))]
       IN  pubs' = IF c = External THEN done
                   ELSE [done EXCEPT ![c[1]].hst[c[2]] = "running"]
    /\ UNCHANGED <<subscribers, lock, redisVars, traceVars, extVars>>

-----------------------------------------------------------------------------
(***************************************************************************)
(* EventBus, Redis backend                                                 *)
(***************************************************************************)

\* how _init_redis ends: the client is created, the import of the redis
\* package fails, or creating the client raises another Exception
InitOutcomes == {"ok", "ImportError", "Exception"}

\* mutant: only the missing package makes the bus fall back to memory
InitRedisImportOnly(outcome) ==
    CASE outcome = "ok" -> [backend |-> "redis", redis |-> TRUE]
      [] outcome = "ImportError" -> [backend |-> "memory", redis |-> FALSE]
      [] OTHER -> [backend |-> "redis", redis |-> FALSE]

\* EventBus._init_redis: backend and redis attribute when it has ended
InitRedis(outcome) ==
    CASE outcome = "ok" -> [backend |-> "redis", redis |-> TRUE]
      [] outcome = "ImportError" -> [backend |-> "memory", redis |-> FALSE]
      [] OTHER -> [backend |-> "memory", redis |-> FALSE]

\* EventBus.__init__(backend=b)
EventBusInit(b, outcome) ==
    IF b = "redis" THEN InitRedis(outcome) ELSE [backend |-> b, redis |-> FALSE]

\* the data of an event: a dict with one entry whose value JSON can encode
\* (the number 1) or cannot (an arbitrary object)
DataValues == {[key |-> "k", kind |-> "int", text |-> "1"],
               [key |-> "k", kind |-> "object", text |-> "<object>"]}

\* Event; session_id "s1", timestamp 1.0 and no correlation_id
Events ==
    {[event_type |-> t, session_id |-> "s1", timestamp |-> "1.0", data |-> d,
      correlation_id |-> "null"] : t \in EventTypes, d \in DataValues}

\* a JSON string literal, as pieces of text
Quote(str) == <<"\"", str, "\"">>

\* Event.to_dict(): the fields in the order they are written, each value
\* as the JSON text json.dumps gives it
ToDict(ev) ==
    << <<"event_type", Quote(ev.event_type)>>,
       <<"session_id", Quote(ev.session_id)>>,
       <<"timestamp", <<ev.timestamp>> >>,
       <<"data", <<"{">> \o Quote(ev.data.key) \o <<": ", ev.data.text, "}">> >>,
       <<"correlation_id", <<ev.correlation_id>> >> >>

\* json.dumps raises TypeError for a value it cannot encode
Serializable(ev) == ev.data.kind # "object"

\* json.dumps(d) of a dict given as its items in order
JsonDumps(items) ==
    LET body[i \in 0..Len(items)] ==
            IF i = 0 THEN << >>
            ELSE body[i - 1] \o (IF i = 1 THEN << >> ELSE <<", ">>)
                 \o Quote(items[i][1]) \o <<": ">> \o items[i][2]
    IN  <<"{">> \o body[Len(items)] \o <<"}">>

\* channel = f"events:{event.event_type.value}"
Channel(t) == <<"events:", t>>

\* mutant: a failed send is raised to the caller of publish
AfterSendRaise(outcome) ==
    CASE outcome = "ok" -> "ok"
      [] outcome = "fail" -> "raised"
      [] OTHER -> "cancelled"

\* _publish_redis after the await of redis.publish: an Exception is logged
\* and swallowed, CancelledError (a BaseException) passes through
AfterSend(outcome) ==
    CASE outcome = "ok" -> "ok"
      [] outcome = "fail" -> "ok"
      [] OTHER -> "cancelled"

\* publish -> _publish_redis up to the await of redis.publish; json.dumps is
\* outside the try block, so its TypeError leaves publish
PublishRedis(ev) ==
    /\ UsesRedis(backend)
    /\ Len(rpubs) < MaxPublish
    /\ rpubs' = Append(rpubs,
           IF Serializable(ev)
           THEN [event |-> ev, pc |-> "send", result |-> "none",
                 sends |-> <<[channel |-> Channel(ev.event_type),
                              message |-> JsonDumps(ToDict(ev)),
                              outcome |-> "pending"]>>]
           ELSE [event |-> ev, pc |-> "raised", result |-> "TypeError",
                 sends |-> << >>])
    /\ UNCHANGED <<subscribers, lock, pubs, requested, backend, redis, traceVars, extVars>>

\* the await of redis.publish ends: the message was sent, the send raised
\* an Exception, or the caller was cancelled
SendDone(i, outcome) ==
    /\ i \in 1..Len(rpubs)
    /\ rpubs[i].pc = "send"
    /\ LET r == AfterSend(outcome)
       IN  rpubs' = [rpubs EXCEPT ![i].sends[1].outcome = outcome,
                                  ![i].result = r,
                                  ![i].pc = IF r = "ok" THEN "returned" ELSE "raised"]
    /\ UNCHANGED <<subscribers, lock, pubs, requested, backend, redis, traceVars, extVars>>

-----------------------------------------------------------------------------
(***************************************************************************)
(* trace_models.py: TraceSpan and ExecutionTrace                           *)
(***************************************************************************)

\* Python's None in a message field (error: str | None)
NoneStr == <<"None">>

\* SpanType; agent_run and retrieval are treated by the code as tool_call is
SpanTypes == {"llm_call", "browser_action", "tool_call"}

\* the exceptions a wrapped body raises; msg is the argument, as a sequence
\* of pieces of text
Failures == {[type |-> "ValueError", msg |-> <<"x">>],
             [type |-> "KeyError", msg |-> <<"x">>],
             [type |-> "TimeoutError", msg |-> <<"nav failed">>]}

\* raised by the f-string of the tracer's log line when duration_ms is None
FormatError == [type |-> "TypeError", msg |-> <<"unsupported format string">>]

\* str(exception): the argument, which KeyError puts in quotes
Str(e) == IF e.type = "KeyError" THEN <<"'">> \o e.msg \o <<"'">> ELSE e.msg

\* the text sub occurs in the text s
Contains(s, sub) ==
    \E i \in 0..(Len(s) - Len(sub)) : SubSeq(s, i + 1, i + Len(sub)) = sub

\* truth value of an optional number: None and 0 are false
Truthy(x) == x # None /\ x # 0

\* the LLM fields of a span, and the keyword arguments that carry them
NoLLM == [tokens_input |-> None, tokens_output |-> None, cost_usd |-> None]

\* the TraceSpan constructor; fields it is not given take their defaults
TraceSpan(parent_id, span_type, start_time, metadata, llm) ==
    [parent_id |-> parent_id, span_type |-> span_type,
     start_time |-> start_time, end_time |-> None, duration_ms |-> None,
     metadata |-> metadata,
     tokens_input |-> llm.tokens_input, tokens_output |-> llm.tokens_output,
     cost_usd |-> llm.cost_usd,
     status |-> "running", error |-> NoneStr]

\* TraceSpan.complete() at time t (called without outputs)
Complete(sp, t) ==
    [sp EXCEPT !.end_time = t,
               !.duration_ms = IF Truthy(sp.start_time)
                               THEN (t - sp.start_time) * 1000 ELSE @,
               !.status = "completed"]

\* mutant: error_out that records the class of the exception, not its text
ErrorOutTypeName(sp, t, e) ==
    [sp EXCEPT !.end_time = t,
               !.duration_ms = IF Truthy(sp.start_time)
                               THEN (t - sp.start_time) * 1000 ELSE @,
               !.status = "error",
               !.error = <<e.type>>]

\* TraceSpan.error_out(e) at time t
ErrorOut(sp, t, e) ==
    [sp EXCEPT !.end_time = t,
               !.duration_ms = IF Truthy(sp.start_time)
                               THEN (t - sp.start_time) * 1000 ELSE @,
               !.status = "error",
               !.error = Str(e)]

\* the ExecutionTrace constructor
ExecutionTrace(task, start_time) ==
    [task |-> task, start_time |-> start_time, end_time |-> None,
     spans |-> << >>,
     total_tokens |-> 0, total_cost_usd |-> 0, llm_calls |-> 0,
     actions_executed |-> 0,
     success |-> FALSE, final_output |-> NoneStr, error |-> NoneStr]

\* mutant: add_span that counts tokens only when both counts are given
AddSpanBothTokens(tr, id, sp) ==
    [tr EXCEPT
        !.spans = Append(@, id),
        !.total_tokens = @ + (IF Truthy(sp.tokens_input) /\ Truthy(sp.tokens_output)
                              THEN sp.tokens_input + sp.tokens_output ELSE 0),
        !.total_cost_usd = @ + (IF Truthy(sp.cost_usd) THEN sp.cost_usd ELSE 0),
        !.llm_calls = @ + (IF sp.span_type = "llm_call" THEN 1 ELSE 0),
        !.actions_executed = @ + (IF sp.span_type = "browser_action" THEN 1 ELSE 0)]

\* ExecutionTrace.add_span(span): span is the object with index id, and sp
\* its fields at the time of the call
AddSpan(tr, id, sp) ==
    [tr EXCEPT
        !.spans = Append(@, id),
        !.total_tokens = @ + (IF Truthy(sp.tokens_input) THEN sp.tokens_input ELSE 0)
                           + (IF Truthy(sp.tokens_output) THEN sp.tokens_output ELSE 0),
        !.total_cost_usd = @ + (IF Truthy(sp.cost_usd) THEN sp.cost_usd ELSE 0),
        !.llm_calls = @ + (IF sp.span_type = "llm_call" THEN 1 ELSE 0),
        !.actions_executed = @ + (IF sp.span_type = "browser_action" THEN 1 ELSE 0)]

\* round(x, 4) of an amount counted in 1/100000 USD: to the nearest multiple
\* of ten, a tie going to the even one
Round4(c) ==
    LET q == c \div 10
        r == c % 10
    IN  IF r < 5 THEN q * 10
        ELSE IF r > 5 THEN (q + 1) * 10
        ELSE IF q % 2 = 0 THEN q * 10 ELSE (q + 1) * 10

\* ExecutionTrace.get_summary(), without the identifier and the clock fields
GetSummary(tr) ==
    [task |-> tr.task, total_spans |-> Len(tr.spans),
     llm_calls |-> tr.llm_calls, actions_executed |-> tr.actions_executed,
     total_tokens |-> tr.total_tokens,
     total_cost_usd |-> Round4(tr.total_cost_usd),
     success |-> tr.success]

\* no exception
NoFailure == [type |-> "none", msg |-> << >>]

\* the last step did not leave a span scope
NoExit == [span |-> None, how |-> "none", body |-> NoFailure,
           out |-> "none", outexc |-> NoFailure]

\* the tracer and the data model before anything was created
TraceIdle ==
    /\ now = 1
    /\ spans = << >>
    /\ traces = << >>
    /\ current_trace = None
    /\ span_stack = << >>
    /\ scopes = << >>
    /\ lastExit = NoExit
    /\ added = << >>

\* the bus constructed with the default backend, before anything was
\* subscribed or published
BusIdle ==
    /\ subscribers = << >>
    /\ lock = FALSE
    /\ pubs = << >>
    /\ requested = "memory"
    /\ backend = "memory"
    /\ redis = FALSE
    /\ rpubs = << >>

\* time passes
Tick ==
    /\ now < MaxClock
    /\ now' = now + 1
    /\ lastExit' = NoExit
    /\ UNCHANGED <<busVars, spans, traces, current_trace, span_stack, scopes, added, extVars>>

-----------------------------------------------------------------------------
(***************************************************************************)
(* tracer.py: AgentTracer                                                  *)
(***************************************************************************)

\* the coroutines that use the tracer; the span scopes of one coroutine are
\* lexically nested, those of two coroutines may overlap
Tasks == 1..NTasks

Last(seq) == seq[Len(seq)]

Front(seq) == SubSeq(seq, 1, Len(seq) - 1)

\* keyword arguments a caller passes to span(...) beyond name, type, inputs
KwargValues ==
    {NoLLM, [tokens_input |-> 100, tokens_output |-> 50, cost_usd |-> 200]}

\* the calls of span(...) the coroutines make: an LLM call without or with
\* its token counts and cost as keyword arguments, and a browser action
SpanCalls ==
    {[span_type |-> "llm_call", kwargs |-> kw] : kw \in KwargValues}
    \cup {[span_type |-> "browser_action", kwargs |-> NoLLM]}

\* the calls of span(...) of a call chain that wraps tool calls only
ToolCalls == {[span_type |-> "tool_call", kwargs |-> NoLLM]}

\* the exceptions the bodies of span scopes raise
BodyFailures == {e \in Failures : e.type \in {"KeyError", "TimeoutError"}}

\* the outcomes a caller reports to end_trace
Outcomes == {[success |-> TRUE, final_output |-> <<"done">>, error |-> NoneStr],
             [success |-> FALSE, final_output |-> NoneStr, error |-> <<"nav failed">>]}

\* values a caller writes to the LLM fields of the span the scope yielded
FillValues == {[tokens_input |-> 100, tokens_output |-> 50, cost_usd |-> 200]}

\* mutant: start_trace that ends the trace it replaces
StartTraceEndsOld(task) ==
    /\ traces' = Append(IF current_trace # None
                        THEN [traces EXCEPT ![current_trace].end_time = now]
                        ELSE traces,
                        ExecutionTrace(task, now))
    /\ added' = Append(added, << >>)
    /\ current_trace' = Len(traces) + 1
    /\ lastExit' = NoExit
    /\ UNCHANGED <<busVars, now, spans, span_stack, scopes, extVars>>

\* AgentTracer.start_trace(task)
StartTrace(task) ==
    /\ traces' = Append(traces, ExecutionTrace(task, now))
    /\ added' = Append(added, << >>)
    /\ current_trace' = Len(traces) + 1
    /\ lastExit' = NoExit
    /\ UNCHANGED <<busVars, now, spans, span_stack, scopes, extVars>>

\* mutant: end_trace that does not record the error
FinalizeNoError(tr, t, success, final_output, error) ==
    [tr EXCEPT !.end_time = t, !.success = success, !.final_output = final_output]

\* the assignments of end_trace to the current trace
Finalize(tr, t, success, final_output, error) ==
    [tr EXCEPT !.end_time = t, !.success = success,
               !.final_output = final_output, !.error = error]

\* AgentTracer.end_trace(success, final_output, error); nothing happens
\* when there is no current trace
EndTrace(success, final_output, error) ==
    /\ traces' = IF current_trace # None
                 THEN [traces EXCEPT ![current_trace] =
                          Finalize(@, now, success, final_output, error)]
                 ELSE traces
    /\ lastExit' = NoExit
    /\ UNCHANGED <<busVars, now, spans, current_trace, span_stack, scopes, added, extVars>>

\* mutant: the parent is the outermost open span
ParentIdOutermost(stack) == IF stack # << >> THEN stack[1] ELSE None

\* parent_id = self.span_stack[-1].span_id if self.span_stack else None
ParentId(stack) == IF stack # << >> THEN Last(stack) ELSE None

\* AgentTracer.get_current_span()
GetCurrentSpan(stack) == IF stack # << >> THEN Last(stack) ELSE None

\* entry of "async with tracer.span(name, span_type, **kwargs)" in
\* coroutine t, up to the yield
SpanEnter(t, span_type, kwargs) ==
    /\ LET id == Len(spans) + 1
           sp == TraceSpan(ParentId(span_stack), span_type, now, kwargs, NoLLM)
       IN  /\ spans' = Append(spans, sp)
           /\ span_stack' = Append(span_stack, id)
           /\ traces' = IF current_trace # None
                        THEN [traces EXCEPT ![current_trace] = AddSpan(@, id, sp)]
                        ELSE traces
           /\ added' = IF current_trace # None
                       THEN [added EXCEPT ![current_trace] = Append(@, id)]
                       ELSE added
           /\ scopes' = [scopes EXCEPT ![t] = Append(@, id)]
    /\ lastExit' = NoExit
    /\ UNCHANGED <<busVars, now, current_trace, extVars>>

\* the body of the innermost scope of coroutine t writes the LLM fields of
\* the span the scope yielded
SetLLMFields(t, llm) ==
    /\ scopes[t] # << >>
    /\ spans' = [spans EXCEPT ![Last(scopes[t])] =
                    [@ EXCEPT !.tokens_input = llm.tokens_input,
                              !.tokens_output = llm.tokens_output,
                              !.cost_usd = llm.cost_usd]]
    /\ lastExit' = NoExit
    /\ UNCHANGED <<busVars, now, traces, current_trace, span_stack, scopes, added, extVars>>

\* mutant: span() catches BaseException, so a cancelled body closes the span
CloseSpanCatchAll(sp, t, how, e) ==
    CASE how = "ok" ->
            [span |-> Complete(sp, t), out |-> "none", outexc |-> NoFailure]
      [] how = "exc" ->
            [span |-> ErrorOut(sp, t, e), out |-> "exc", outexc |-> e]
      [] OTHER ->
            [span |-> ErrorOut(sp, t, [type |-> "CancelledError", msg |-> << >>]),
             out |-> "cancel", outexc |-> NoFailure]

\* the try/except of span(): what becomes of the span and what leaves the
\* scope when the body ends how ("ok": it completes or returns early, "exc":
\* it raises the Exception e, "cancel": CancelledError, a BaseException)
CloseSpan(sp, t, how, e) ==
    CASE how = "ok" ->
            LET c == Complete(sp, t)
            IN  IF c.duration_ms = None
                THEN [span |-> ErrorOut(c, t, FormatError), out |-> "exc",
                      outexc |-> FormatError]
                ELSE [span |-> c, out |-> "none", outexc |-> NoFailure]
      [] how = "exc" ->
            [span |-> ErrorOut(sp, t, e), out |-> "exc", outexc |-> e]
      [] OTHER ->
            [span |-> sp, out |-> "cancel", outexc |-> NoFailure]

\* mutant: the finally of span() pops whatever is on top
PopAlways(stack, id) == IF stack # << >> THEN Front(stack) ELSE stack

\* the finally of span(): pop only if the span is on top of the stack
PopIfTop(stack, id) ==
    IF stack # << >> /\ Last(stack) = id THEN Front(stack) ELSE stack

\* the innermost scope of coroutine t is left
SpanExit(t, how, e) ==
    /\ scopes[t] # << >>
    /\ LET id == Last(scopes[t])
           r == CloseSpan(spans[id], now, how, e)
       IN  /\ spans' = [spans EXCEPT ![id] = r.span]
           /\ span_stack' = PopIfTop(span_stack, id)
           /\ lastExit' = [span |-> id, how |-> how, body |-> e,
                           out |-> r.out, outexc |-> r.outexc]
    /\ scopes' = [scopes EXCEPT ![t] = Front(@)]
    /\ UNCHANGED <<busVars, now, traces, current_trace, added, extVars>>

(***************************************************************************)
(* The data model used directly: spans are constructed with any LLM       *)
(* fields, completed, errored and added to one trace.                     *)
(***************************************************************************)

\* values a caller gives the LLM fields of a span it constructs
LLMValues ==
    {NoLLM,
     [tokens_input |-> 100, tokens_output |-> 50, cost_usd |-> 200],
     [tokens_input |-> 100, tokens_output |-> None, cost_usd |-> 15],
     [tokens_input |-> 0, tokens_output |-> 50, cost_usd |-> 0]}

NewSpan(span_type, llm) ==
    /\ Len(spans) < MaxAdded
    /\ spans' = Append(spans, TraceSpan(None, span_type, now, NoLLM, llm))
    /\ lastExit' = NoExit
    /\ UNCHANGED <<busVars, now, traces, current_trace, span_stack, scopes, added, extVars>>

SpanComplete(s) ==
    /\ s \in 1..Len(spans)
    /\ spans' = [spans EXCEPT ![s] = Complete(@, now)]
    /\ lastExit' = NoExit
    /\ UNCHANGED <<busVars, now, traces, current_trace, span_stack, scopes, added, extVars>>

SpanErrorOut(s, e) ==
    /\ s \in 1..Len(spans)
    /\ spans' = [spans EXCEPT ![s] = ErrorOut(@, now, e)]
    /\ lastExit' = NoExit
    /\ UNCHANGED <<busVars, now, traces, current_trace, span_stack, scopes, added, extVars>>

TraceAddSpan(s) ==
    /\ s \in 1..Len(spans)
    /\ Len(traces[1].spans) < MaxAdded
    /\ traces' = [traces EXCEPT ![1] = AddSpan(@, s, spans[s])]
    /\ added' = [added EXCEPT ![1] = Append(@, s)]
    /\ UNCHANGED <<busVars, now, spans, current_trace, span_stack, scopes, lastExit, extVars>>

-----------------------------------------------------------------------------
(***************************************************************************)
(* EventBus life cycle: get_event_bus, start_processing, stop_processing,  *)
(* _process_events and close.  Nothing in the program puts an event on     *)
(* _event_queue, so the processing loop only ever waits in queue.get().    *)
(***************************************************************************)

\* the values of the environment variable EVENT_BUS_BACKEND
BackendNames == {"memory", "redis"}

Coroutines == 1..NCallers

\* a task that is over: its coroutine returned, or it was cancelled before
\* its coroutine ever ran
Terminated == {"done", "cancelled"}

\* asyncio.create_task(self._process_events()): scheduled, not yet run
NewTask == [st |-> "created", must_cancel |-> FALSE]

\* Task.cancel(): nothing for a task that is over, otherwise a request that
\* the task meets at its next step
Cancel(ts, k) ==
    IF ts[k].st \in Terminated THEN ts ELSE [ts EXCEPT ![k].must_cancel = TRUE]

\* a coroutine that is in no call of stop_processing or close
IdleCaller == [pc |-> "idle", op |-> "none", task |-> None]

NoCall == [op |-> "none", caller |-> 0, raised |-> FALSE, ret |-> None, task |-> None]

Returned(op, c, raised, ret, k) ==
    [op |-> op, caller |-> c, raised |-> raised, ret |-> ret, task |-> k]

\* mutant: get_event_bus constructs a bus at every call
NeedsCreateAlways(g) == TRUE

\* get_event_bus: if _event_bus is None
NeedsCreate(g) == g = None

\* mutant: close calls self.redis.close() whatever the backend
ReleasesAlways(b, r) == TRUE

\* close: if self.backend == "redis" and hasattr(self, "redis")
ReleasesConnection(b, r) == UsesRedis(b) /\ r

\* os.environ["EVENT_BUS_BACKEND"] = v, at any time
SetEnv(v) ==
    /\ v \in BackendNames
    /\ env' = v
    /\ lastCall' = NoCall
    /\ UNCHANGED <<event_bus, created, processing_task, ptasks, callers, closed>>
    /\ UNCHANGED <<busVars, traceVars, costVars, mcpVars>>

\* get_event_bus(); a bus that is constructed runs EventBus.__init__ with
\* the backend the environment names now
GetEventBus(outcome) ==
    /\ outcome \in InitOutcomes
    /\ IF NeedsCreate(event_bus)
       THEN /\ created < MaxCreated
            /\ created' = created + 1
            /\ event_bus' = created + 1
            /\ requested' = env
            /\ backend' = EventBusInit(env, outcome).backend
            /\ redis' = EventBusInit(env, outcome).redis
            /\ subscribers' = << >>
            /\ processing_task' = None
       ELSE UNCHANGED <<created, event_bus, requested, backend, redis, subscribers,
                        processing_task>>
    /\ lastCall' = Returned("get", 0, FALSE, event_bus', None)
    /\ UNCHANGED <<env, ptasks, callers, closed>>
    /\ UNCHANGED <<lock, pubs, rpubs, traceVars, costVars, mcpVars>>

\* start_processing: it has no suspension point
StartProcessing ==
    /\ event_bus # None
    /\ IF processing_task = None
       THEN /\ Len(ptasks) < MaxTasks
            /\ ptasks' = Append(ptasks, NewTask)
            /\ processing_task' = Len(ptasks) + 1
       ELSE UNCHANGED <<ptasks, processing_task>>
    /\ lastCall' = Returned("start", 0, FALSE, None, None)
    /\ UNCHANGED <<env, event_bus, created, callers, closed>>
    /\ UNCHANGED <<busVars, traceVars, costVars, mcpVars>>

\* where a call is when its stop_processing part is over: stop_processing
\* returns, close goes on to the connection
AfterStop(c, op, k, b, r) ==
    IF op = "close" /\ ReleasesConnection(b, r)
    THEN [caller |-> [pc |-> "release", op |-> op, task |-> k], last |-> NoCall]
    ELSE [caller |-> IdleCaller, last |-> Returned(op, c, FALSE, None, k)]

\* coroutine c calls stop_processing, or close, which begins with
\* "await self.stop_processing()".  With no task the call goes on at once;
\* with a task that is over, cancel() does nothing and the await does not
\* suspend; otherwise the caller waits for the task.
StopCall(c, op) ==
    /\ event_bus # None
    /\ callers[c].pc = "idle"
    /\ op \in {"stop", "close"}
    /\ op = "close" => closed < MaxClosed
    /\ IF processing_task = None
       THEN /\ callers' = [callers EXCEPT ![c] = AfterStop(c, op, None, backend, redis).caller]
            /\ lastCall' = AfterStop(c, op, None, backend, redis).last
            /\ UNCHANGED <<ptasks, processing_task>>
       ELSE IF ptasks[processing_task].st \in Terminated
       THEN /\ callers' = [callers EXCEPT ![c] =
                              AfterStop(c, op, processing_task, backend, redis).caller]
            /\ lastCall' = AfterStop(c, op, processing_task, backend, redis).last
            /\ processing_task' = None
            /\ UNCHANGED ptasks
       ELSE /\ ptasks' = Cancel(ptasks, processing_task)
            /\ callers' = [callers EXCEPT ![c] =
                              [pc |-> "await", op |-> op, task |-> processing_task]]
            /\ lastCall' = NoCall
            /\ UNCHANGED processing_task
    /\ UNCHANGED <<env, event_bus, created, closed>>
    /\ UNCHANGED <<busVars, traceVars, costVars, mcpVars>>

\* the event loop runs task k for the first time: a task that was cancelled
\* before is over without its coroutine having run, otherwise
\* _process_events runs up to "await self._event_queue.get()"
TaskRun(k) ==
    /\ k \in 1..Len(ptasks)
    /\ ptasks[k].st = "created"
    /\ ptasks' = [ptasks EXCEPT ![k] =
                     IF @.must_cancel THEN [st |-> "cancelled", must_cancel |-> FALSE]
                     ELSE [st |-> "waiting", must_cancel |-> FALSE]]
    /\ lastCall' = NoCall
    /\ UNCHANGED <<env, event_bus, created, processing_task, callers, closed>>
    /\ UNCHANGED <<busVars, traceVars, costVars, mcpVars>>

\* _process_events: CancelledError is raised in queue.get(), the loop
\* catches it and breaks, and the coroutine returns
TaskCancelled(k) ==
    /\ k \in 1..Len(ptasks)
    /\ ptasks[k].st = "waiting"
    /\ ptasks[k].must_cancel
    /\ ptasks' = [ptasks EXCEPT ![k] = [st |-> "done", must_cancel |-> FALSE]]
    /\ lastCall' = NoCall
    /\ UNCHANGED <<env, event_bus, created, processing_task, callers, closed>>
    /\ UNCHANGED <<busVars, traceVars, costVars, mcpVars>>

\* stop_processing resumes when the task it awaits is over: the
\* CancelledError of a cancelled task is passed over, and
\* self._processing_task = None
StopResume(c) ==
    /\ callers[c].pc = "await"
    /\ ptasks[callers[c].task].st \in Terminated
    /\ processing_task' = None
    /\ callers' = [callers EXCEPT ![c] =
                      AfterStop(c, @.op, @.task, backend, redis).caller]
    /\ lastCall' = AfterStop(c, callers[c].op, callers[c].task, backend, redis).last
    /\ UNCHANGED <<env, event_bus, created, ptasks, closed>>
    /\ UNCHANGED <<busVars, traceVars, costVars, mcpVars>>

\* close: "await self.redis.close()" is over; reading self.redis on a bus
\* that has no such attribute raises AttributeError
ReleaseDone(c) ==
    /\ callers[c].pc = "release"
    /\ callers' = [callers EXCEPT ![c] = IdleCaller]
    /\ IF redis
       THEN /\ closed' = closed + 1
            /\ lastCall' = Returned("close", c, FALSE, None, callers[c].task)
       ELSE /\ closed' = closed
            /\ lastCall' = Returned("close", c, TRUE, None, callers[c].task)
    /\ UNCHANGED <<env, event_bus, created, processing_task, ptasks>>
    /\ UNCHANGED <<busVars, traceVars, costVars, mcpVars>>

LifeIdle ==
    /\ env = "memory"
    /\ event_bus = None
    /\ created = 0
    /\ processing_task = None
    /\ ptasks = << >>
    /\ callers = [c \in Coroutines |-> IdleCaller]
    /\ closed = 0
    /\ lastCall = NoCall

-----------------------------------------------------------------------------
(***************************************************************************)
(* cost_calculator.py.  A model name is the sequence of its characters.    *)
(* A price is counted in 1/1000 USD per million tokens and a cost in       *)
(* 1/1000000000 USD, so that tokens * price is the cost with no division.  *)
(***************************************************************************)

\* LLM_PRICING, in the order the dict is written
LLM_PRICING ==
    <<
       [name |-> <<"g", "p", "t", "-", "4", "o">>,
        input |-> 2500, output |-> 10000],
       [name |-> <<"g", "p", "t", "-", "4", "o", "-", "m", "i", "n", "i">>,
        input |-> 150, output |-> 600],
       [name |-> <<"g", "p", "t", "-", "4", "-", "t", "u", "r", "b", "o">>,
        input |-> 10000, output |-> 30000],
       [name |-> <<"g", "p", "t", "-", "4">>,
        input |-> 30000, output |-> 60000],
       [name |-> <<"g", "p", "t", "-", "3", ".", "5", "-", "t", "u", "r", "b", "o">>,
        input |-> 500, output |-> 1500],
       [name |-> <<"c", "l", "a", "u", "d", "e", "-", "3", ".", "7", "-", "s", "o", "n", "n", "e", "t">>,
        input |-> 3000, output |-> 15000],
       [name |-> <<"c", "l", "a", "u", "d", "e", "-", "3", "-", "5", "-", "s", "o", "n", "n", "e", "t">>,
        input |-> 3000, output |-> 15000],
       [name |-> <<"c", "l", "a", "u", "d", "e", "-", "3", "-", "o", "p", "u", "s">>,
        input |-> 15000, output |-> 75000],
       [name |-> <<"c", "l", "a", "u", "d", "e", "-", "3", "-", "h", "a", "i", "k", "u">>,
        input |-> 250, output |-> 1250],
       [name |-> <<"c", "l", "a", "u", "d", "e", "-", "3", "-", "s", "o", "n", "n", "e", "t">>,
        input |-> 3000, output |-> 15000],
       [name |-> <<"g", "e", "m", "i", "n", "i", "-", "p", "r", "o">>,
        input |-> 500, output |-> 1500],
       [name |-> <<"g", "e", "m", "i", "n", "i", "-", "1", ".", "5", "-", "p", "r", "o">>,
        input |-> 1250, output |-> 5000],
       [name |-> <<"g", "e", "m", "i", "n", "i", "-", "1", ".", "5", "-", "f", "l", "a", "s", "h">>,
        input |-> 75, output |-> 300],
       [name |-> <<"g", "e", "m", "i", "n", "i", "-", "2", ".", "0", "-", "f", "l", "a", "s", "h">>,
        input |-> 100, output |-> 400],
       [name |-> <<"d", "e", "e", "p", "s", "e", "e", "k", "-", "v", "3">>,
        input |-> 140, output |-> 280],
       [name |-> <<"d", "e", "e", "p", "s", "e", "e", "k", "-", "c", "h", "a", "t">>,
        input |-> 140, output |-> 280],
       [name |-> <<"m", "i", "s", "t", "r", "a", "l", "-", "l", "a", "r", "g", "e">>,
        input |-> 2000, output |-> 6000],
       [name |-> <<"m", "i", "s", "t", "r", "a", "l", "-", "m", "e", "d", "i", "u", "m">>,
        input |-> 2700, output |-> 8100],
       [name |-> <<"m", "i", "s", "t", "r", "a", "l", "-", "s", "m", "a", "l", "l">>,
        input |-> 200, output |-> 600],
       [name |-> <<"o", "l", "l", "a", "m", "a">>,
        input |-> 0, output |-> 0],
       [name |-> <<"l", "l", "a", "m", "a">>,
        input |-> 0, output |-> 0]
    >>

UpperCase == <<"A", "B", "C", "D", "E", "F", "G", "H", "I", "J", "K", "L", "M",
               "N", "O", "P", "Q", "R", "S", "T", "U", "V", "W", "X", "Y", "Z">>

LowerCase == <<"a", "b", "c", "d", "e", "f", "g", "h", "i", "j", "k", "l", "m",
               "n", "o", "p", "q", "r", "s", "t", "u", "v", "w", "x", "y", "z">>

\* str.lower()
Lower(str) ==
    [k \in 1..Len(str) |->
        IF \E i \in 1..26 : UpperCase[i] = str[k]
        THEN LowerCase[CHOOSE i \in 1..26 : UpperCase[i] = str[k]]
        ELSE str[k]]

\* str.strip(): the text without the white space at its two ends
Strip(str) ==
    LET inner == {k \in 1..Len(str) : str[k] # " "}
    IN  IF inner = {} THEN << >>
        ELSE SubSeq(str, CHOOSE k \in inner : \A j \in inner : k <= j,
                         CHOOSE k \in inner : \A j \in inner : k >= j)

\* the operator "in" of two str: a occurs in b
Substring(a, b) ==
    \E k \in 0..(Len(b) - Len(a)) : SubSeq(b, k + 1, k + Len(a)) = a

\* model_key in LLM_PRICING
ExactMatches(model_key) ==
    {i \in 1..Len(LLM_PRICING) : LLM_PRICING[i].name = model_key}

\* the loop of the fuzzy matching: the entries it would accept
FuzzyMatches(model_key) ==
    {i \in 1..Len(LLM_PRICING) :
        \/ Substring(LLM_PRICING[i].name, model_key)
        \/ Substring(model_key, LLM_PRICING[i].name)}

\* the smallest index of a set of indices (the loop breaks at the first)
First(S) == CHOOSE i \in S : \A j \in S : i <= j

\* the entry of the table that prices model_key: its index, or None
Pricing(model_key) ==
    IF ExactMatches(model_key) # {} THEN First(ExactMatches(model_key))
    ELSE IF FuzzyMatches(model_key) # {} THEN First(FuzzyMatches(model_key))
    ELSE None

\* mutant: only the input tokens are charged
CalculateLLMCostInputOnly(model, input_tokens, output_tokens) ==
    IF model = << >> \/ input_tokens = 0 \/ output_tokens = 0
    THEN 0
    ELSE LET p == Pricing(Strip(Lower(model)))
         IN  IF p = None THEN 0 ELSE input_tokens * LLM_PRICING[p].input

\* calculate_llm_cost(model, input_tokens, output_tokens)
CalculateLLMCost(model, input_tokens, output_tokens) ==
    IF model = << >> \/ input_tokens = 0 \/ output_tokens = 0
    THEN 0
    ELSE LET p == Pricing(Strip(Lower(model)))
         IN  IF p = None THEN 0
             ELSE input_tokens * LLM_PRICING[p].input
                  + output_tokens * LLM_PRICING[p].output

GPT4oMini == <<"g", "p", "t", "-", "4", "o", "-", "m", "i", "n", "i">>

GPT4o == <<"g", "p", "t", "-", "4", "o">>

GPT4oMiniRaw == <<" ", "G", "P", "T", "-", "4", "o", "-", "M", "i", "n", "i", " ">>

Gemini15FlashDated == <<"g", "e", "m", "i", "n", "i", "-", "1", ".", "5", "-", "f", "l", "a", "s", "h", "-", "0", "0", "2">>

Gem == <<"g", "e", "m">>

UnknownModel == <<"m", "y", "-", "m", "o", "d", "e", "l">>

EmptyModel == <<>>

\* the model names the calls are made with: names of the table, a name
\* that needs lower() and strip(), names only the fuzzy matching prices
\* (one that contains an entry, one that an entry contains), names that
\* nothing prices, and the empty name
ModelNames == {GPT4oMini, GPT4o, GPT4oMiniRaw, Gemini15FlashDated, Gem,
               UnknownModel, EmptyModel}

Million == 1000000

TokenCounts == 0..MaxTokens

\* the calls that are made: every name with every pair of small counts, and
\* the calls with a million tokens each way
CostInputs ==
    {<<m, i, o>> : m \in ModelNames, i \in TokenCounts, o \in TokenCounts}
        \cup {<<GPT4oMini, Million, Million>>, <<UnknownModel, Million, Million>>}

\* one call of calculate_llm_cost and what it returned
Calculate(model, input_tokens, output_tokens) ==
    /\ Len(cost_calls) < MaxCalls
    /\ cost_calls' = Append(cost_calls,
                            [model |-> model, input_tokens |-> input_tokens,
                             output_tokens |-> output_tokens,
                             result |-> CalculateLLMCost(model, input_tokens,
                                                         output_tokens)])
    /\ UNCHANGED <<busVars, traceVars, lifeVars, mcpVars>>

CostIdle == cost_calls = << >>

-----------------------------------------------------------------------------
(***************************************************************************)
(* custom_controller.py: the MCP client of CustomController and the        *)
(* actions it registers.  The name of an action is a sequence of pieces    *)
(* of text; the name of an MCP tool is "mcp." server "." tool.             *)
(***************************************************************************)

Servers == {"files", "search", "browser"}

\* the tools each MCP server offers
ServerTools ==
    [s \in Servers |->
        CASE s = "files" -> {"read", "write"}
          [] s = "search" -> {"query"}
          [] OTHER -> {"click"}]

\* None where a configuration or a client is expected
NoneCfg == {"None"}

\* a configuration is the set of the servers it names; the empty dict is
\* a configuration too
Configs == SUBSET Servers

\* the actions the controller registers for itself, whose names do not
\* start with "mcp."
OwnActions == {<<"ask_for_assistant">>, <<"mcp_", "status">>}

\* name.startswith("mcp.")
StartsWithMcp(name) == name[1] = "mcp."

\* f"mcp.{server_name}.{tool.name}"
ToolName(s, tool) == <<"mcp.", s, ".", tool>>

\* setup_mcp_client_and_tools(config): the client, as the set of the
\* servers it is connected to (server_name_to_tools is ServerTools on
\* them), or None when the client could not be started
SetupMcpClientAndTools(config, outcome) ==
    IF outcome = "ok" THEN config ELSE NoneCfg

\* the names register_mcp_tools writes into registry.registry.actions
RegisteredNames(client) ==
    IF client = NoneCfg THEN {}
    ELSE UNION {{ToolName(s, tool) : tool \in ServerTools[s]} : s \in client}

\* setup_mcp_client(mcp_server_config) as a function of the controller:
\* file is what load_mcp_config() returns, outcome how the client starts
SetupResult(ctl, config, file, outcome) ==
    LET cfg == IF config = NoneCfg THEN file ELSE config
    IN  IF cfg = NoneCfg THEN ctl
        ELSE IF cfg = {} THEN [ctl EXCEPT !.mcp_server_config = cfg]
        ELSE LET client == SetupMcpClientAndTools(cfg, outcome)
             IN  [mcp_server_config |-> cfg,
                  mcp_client |-> client,
                  actions |-> ctl.actions \cup RegisteredNames(client)]

\* close_mcp_client as a function of the controller: an Exception of
\* __aexit__ is logged, and the client is dropped in any case
CloseResult(ctl) == [ctl EXCEPT !.mcp_client = NoneCfg]

\* reload_mcp_client: the "mcp." actions are removed between close and setup
UnregisterResult(ctl) ==
    [ctl EXCEPT !.actions = {a \in @ : ~StartsWithMcp(a)}]

Controller ==
    [mcp_server_config |-> mcp_server_config, mcp_client |-> mcp_client,
     actions |-> actions]

SetupMcpClient(config, file, outcome) ==
    LET ctl == SetupResult(Controller, config, file, outcome)
    IN  /\ mcp_server_config' = ctl.mcp_server_config
        /\ mcp_client' = ctl.mcp_client
        /\ actions' = ctl.actions
        /\ mcp_op' = "setup"
        /\ UNCHANGED <<busVars, traceVars, lifeVars, costVars>>

CloseMcpClient ==
    LET ctl == CloseResult(Controller)
    IN  /\ mcp_server_config' = ctl.mcp_server_config
        /\ mcp_client' = ctl.mcp_client
        /\ actions' = ctl.actions
        /\ mcp_op' = "close"
        /\ UNCHANGED <<busVars, traceVars, lifeVars, costVars>>

ReloadMcpClient(config, file, outcome) ==
    LET ctl == SetupResult(UnregisterResult(CloseResult(Controller)),
                           config, file, outcome)
    IN  /\ mcp_server_config' = ctl.mcp_server_config
        /\ mcp_client' = ctl.mcp_client
        /\ actions' = ctl.actions
        /\ mcp_op' = "reload"
        /\ UNCHANGED <<busVars, traceVars, lifeVars, costVars>>

McpIdle ==
    /\ mcp_server_config = NoneCfg
    /\ mcp_client = NoneCfg
    /\ actions = OwnActions
    /\ mcp_op = "none"

\* the parts of the program a specification does not exercise are idle
ExtIdle ==
    /\ LifeIdle
    /\ CostIdle
    /\ McpIdle

-----------------------------------------------------------------------------
(***************************************************************************)
(* Claims about the in-memory event bus (checked under SpecBus)            *)
(***************************************************************************)

\* the handlers whose body has been entered for a publish
Invoked(pub) == {h \in Handlers : pub.hst[h] \notin {"none", "pending"}}

\* the handlers of a publish whose body ended by raising (an Exception, or
\* the BaseException CancelledError)
Failed(pub) == {h \in Handlers : pub.hst[h] \in {"raised", "cancelled"}}

\* C1: when a handler raises during publish(event), every other handler
\* subscribed to the event's type that has not started yet can still start,
\* publish does not return before all of them were invoked and finished,
\* and publish returns normally (nothing propagates to its caller).
C1_HandlerFailureIsolated ==
    \A p \in 1..Len(pubs) :
        Failed(pubs[p]) # {} =>
            /\ pubs[p].pc = "gather" =>
                   \A h \in pubs[p].subsAt :
                       pubs[p].hst[h] = "pending" => ENABLED HandlerStart(p, h)
            /\ pubs[p].pc = "returned" =>
                   /\ pubs[p].result = "ok"
                   /\ \A h \in pubs[p].subsAt : pubs[p].hst[h] \in Finished

\* a publish returned although one of its handlers raised an Exception and
\* another was cancelled or returned
C1_Witness ==
    \E p \in 1..Len(pubs) :
        /\ pubs[p].pc = "returned"
        /\ \E h \in Handlers : pubs[p].hst[h] = "raised"
        /\ \E h \in Handlers : pubs[p].hst[h] = "returned"

\* C2: the handlers invoked for a publish are handlers that were subscribed
\* to the event's type when the publish took its fan-out list, all of them
\* once the publish has returned; what is subscribed or unsubscribed later
\* does not change it, and no handler of another type only is invoked.
C2_SnapshotFanOut ==
    \A p \in 1..Len(pubs) :
        /\ pubs[p].fanout = pubs[p].subsAt
        /\ Invoked(pubs[p]) \subseteq pubs[p].subsAt
        /\ pubs[p].pc = "returned" => Invoked(pubs[p]) = pubs[p].subsAt

\* a publish is in flight with a handler executing, the subscriptions of
\* its type are no longer those of its fan-out, and another type has a
\* subscriber that is not in the fan-out
C2_Witness ==
    \E p \in 1..Len(pubs) :
        /\ pubs[p].pc = "gather"
        /\ \E h \in Handlers : pubs[p].hst[h] = "running"
        /\ pubs[p].subsAt # FanOut(subscribers, pubs[p].etype)
        /\ \E t \in DOMAIN subscribers \ {pubs[p].etype} :
               subscribers[t] \ pubs[p].subsAt # {}

\* C3: while a publish waits, every handler of its fan-out that has not
\* started can start, whatever the other handlers are doing; and the publish
\* has returned only if every handler of the fan-out has finished.
C3_ConcurrentThenJoin ==
    \A p \in 1..Len(pubs) :
        /\ pubs[p].pc = "gather" =>
               \A h \in pubs[p].fanout :
                   pubs[p].hst[h] = "pending" => ENABLED HandlerStart(p, h)
        /\ pubs[p].pc = "returned" =>
               \A h \in pubs[p].fanout : pubs[p].hst[h] \in Finished

\* two handlers of one publish are executing at the same time
C3_Witness ==
    \E p \in 1..Len(pubs) :
        /\ pubs[p].pc = "gather"
        /\ \E g, h \in pubs[p].fanout :
               g # h /\ pubs[p].hst[g] = "running" /\ pubs[p].hst[h] = "running"

\* C15: with any table the bus can hold, subscribing h to t again leaves
\* the table as one subscribe left it, the fan-out of a publish of type t
\* then holds h (once: the fan-out is the list of a set), one unsubscribe
\* takes h out of that fan-out, and no publish invokes a handler that was
\* not subscribed to its type when it was called.
C15_SubscribeIdempotent ==
    /\ \A t \in EventTypes, h \in Handlers :
           LET once == SubscribeTable(subscribers, t, h)
               twice == SubscribeTable(once, t, h)
               gone == UnsubscribeTable(twice, t, h)
           IN  /\ twice = once
               /\ h \in FanOut(twice, t)
               /\ Cardinality(FanOut(twice, t)) = Cardinality(FanOut(once, t))
               /\ h \notin FanOut(gone, t)
               /\ FanOut(gone, t) = FanOut(subscribers, t) \ {h}
    /\ \A p \in 1..Len(pubs), h \in Handlers :
           h \notin pubs[p].subsAt => pubs[p].hst[h] = "none"

\* handler 1 was invoked by a first publish and returned; it is no longer
\* subscribed, and a second publish of the same type invoked only handler 2
C15_Witness ==
    /\ Len(pubs) = 2
    /\ pubs[1].etype = pubs[2].etype
    /\ pubs[1].hst[1] = "returned"
    /\ pubs[2].pc = "returned"
    /\ pubs[2].fanout = {2}
    /\ FanOut(subscribers, pubs[1].etype) = {2}

\* C16: unsubscribe(t, h) for a handler that is not subscribed to t, or for
\* a type that has no set of subscribers, can be called and leaves the
\* whole table as it is.
C16_UnsubscribeAbsentIsNoOp ==
    \A t \in EventTypes, h \in Handlers :
        h \notin FanOut(subscribers, t) =>
            /\ ENABLED Unsubscribe(t, h)
            /\ UnsubscribeTable(subscribers, t, h) = subscribers

\* one type has handler 1 and not handler 2 subscribed, the other type has
\* no set of subscribers at all
C16_Witness ==
    /\ DOMAIN subscribers = {"agent.start"}
    /\ subscribers["agent.start"] = {1}

\* C17: a publish of an event whose type has no subscriber, because the
\* type was never subscribed to or because every handler was unsubscribed,
\* returns at once and normally, starts no handler, and leaves the
\* subscriber table and the publishes in flight as they were.
C17_PublishWithoutSubscribers ==
    [][Len(pubs') = Len(pubs) + 1 =>
          LET new == pubs'[Len(pubs')]
          IN  (new.etype \notin DOMAIN subscribers \/ subscribers[new.etype] = {}) =>
                  /\ new.pc = "returned"
                  /\ new.result = "ok"
                  /\ \A h \in Handlers : new.hst[h] = "none"
                  /\ subscribers' = subscribers
                  /\ \A p \in 1..Len(pubs) : pubs'[p] = pubs[p]]_vars

\* a publish returned without handlers for a type whose handlers were all
\* unsubscribed, while the other type has a subscriber
C17_Witness ==
    \E p \in 1..Len(pubs) :
        /\ pubs[p].subsAt = {}
        /\ pubs[p].pc = "returned"
        /\ pubs[p].etype \in DOMAIN subscribers
        /\ subscribers[pubs[p].etype] = {}
        /\ \E t \in DOMAIN subscribers : subscribers[t] # {}

-----------------------------------------------------------------------------
(***************************************************************************)
(* Claims about the Redis backend (checked under SpecBusRedis)             *)
(***************************************************************************)

\* C18: a bus constructed with backend="redis" whose _init_redis failed
\* (no client was created) exists, has backend "memory", never sends to
\* Redis, can publish, and every publish fans out in process to the
\* handlers subscribed to the event's type.
C18_InitFailureFallsBack ==
    (requested = "redis" /\ ~redis) =>
        /\ backend = "memory"
        /\ rpubs = << >>
        /\ Len(pubs) < MaxPublish =>
               \A t \in EventTypes : ENABLED Publish(External, t)
        /\ \A p \in 1..Len(pubs) :
               /\ pubs[p].fanout = pubs[p].subsAt
               /\ pubs[p].pc = "returned" => Invoked(pubs[p]) = pubs[p].subsAt

\* on a bus whose Redis initialization failed a publish returned after its
\* two local handlers ran
C18_Witness ==
    /\ requested = "redis" /\ ~redis
    /\ \E p \in 1..Len(pubs) :
           /\ pubs[p].pc = "returned"
           /\ \A h \in Handlers : pubs[p].hst[h] = "returned"

C20_SendFailureDropsEvent ==
    [][/\ \A i \in 1..Len(rpubs) :
              /\ (/\ rpubs[i].pc = "send"
                  /\ rpubs'[i].pc # "send"
                  /\ rpubs'[i].sends[1].outcome = "fail") =>
                     /\ rpubs'[i].pc = "returned"
                     /\ rpubs'[i].result = "ok"
                     /\ Len(rpubs'[i].sends) = 1
                     /\ UNCHANGED <<subscribers, backend, redis>>
              /\ rpubs[i].pc # "send" => rpubs'[i] = rpubs[i]
       /\ (/\ Len(rpubs) < MaxPublish
           /\ \E i \in 1..Len(rpubs) :
                  rpubs[i].sends # << >> /\ rpubs[i].sends[1].outcome = "fail") =>
              \A ev \in Events : ENABLED PublishRedis(ev)]_vars

\* a first publish lost its event to a failed send and returned; a second
\* publish sent its event; a handler is subscribed
C20_Witness ==
    /\ Len(rpubs) = 2
    /\ rpubs[1].pc = "returned" /\ rpubs[1].sends[1].outcome = "fail"
    /\ rpubs[2].pc = "returned" /\ rpubs[2].sends[1].outcome = "ok"
    /\ \E t \in DOMAIN subscribers : subscribers[t] # {}

-----------------------------------------------------------------------------
(***************************************************************************)
(* Claims about the data model (checked under SpecTrace and SpecSpan)      *)
(***************************************************************************)

\* tokens of a span: each of the two counts that is set
TokensOf(sp) ==
    (IF sp.tokens_input # None THEN sp.tokens_input ELSE 0)
    + (IF sp.tokens_output # None THEN sp.tokens_output ELSE 0)

CostOf(sp) == IF sp.cost_usd # None THEN sp.cost_usd ELSE 0

\* the aggregates of a trace computed again from its list of spans
Recomputed(ids) ==
    LET tok[i \in 0..Len(ids)] ==
            IF i = 0 THEN 0 ELSE tok[i - 1] + TokensOf(spans[ids[i]])
        cost[i \in 0..Len(ids)] ==
            IF i = 0 THEN 0 ELSE cost[i - 1] + CostOf(spans[ids[i]])
    IN  [total_tokens |-> tok[Len(ids)],
         total_cost_usd |-> cost[Len(ids)],
         llm_calls |-> Cardinality({i \in 1..Len(ids) : spans[ids[i]].span_type = "llm_call"}),
         actions_executed |->
             Cardinality({i \in 1..Len(ids) : spans[ids[i]].span_type = "browser_action"})]

Aggregates(tr) ==
    [total_tokens |-> tr.total_tokens, total_cost_usd |-> tr.total_cost_usd,
     llm_calls |-> tr.llm_calls, actions_executed |-> tr.actions_executed]

\* C8: after any sequence of add_span calls, with the LLM fields of the added
\* spans left as they were, the aggregates of the trace are the sums and
\* counts over its spans, and spans holds the added spans in call order.
C8_AggregatesAfterAddSpan ==
    \A i \in 1..Len(traces) :
        /\ traces[i].spans = added[i]
        /\ Aggregates(traces[i]) = Recomputed(traces[i].spans)

\* a trace holds two spans, one with only one of its token counts set, and
\* both counters and both sums are positive
C8_Witness ==
    \E i \in 1..Len(traces) :
        /\ Len(traces[i].spans) = 2
        /\ \E k \in 1..Len(traces[i].spans) :
               LET sp == spans[traces[i].spans[k]]
               IN  sp.tokens_input # None /\ sp.tokens_output = None
        /\ traces[i].llm_calls > 0 /\ traces[i].actions_executed > 0
        /\ traces[i].total_tokens > 0 /\ traces[i].total_cost_usd > 0

\* C9: status is "running" exactly when end_time is unset, and exactly when
\* duration_ms is unset, whatever start_time the span was created with and
\* however often complete and error_out were applied.
C9_RunningIffNotStamped ==
    \A s \in 1..Len(spans) :
        /\ spans[s].status = "running" <=> spans[s].end_time = None
        /\ spans[s].end_time = None <=> spans[s].duration_ms = None

-----------------------------------------------------------------------------
(***************************************************************************)
(* Claims about the tracer (checked under SpecTracer and SpecTracerSeq)    *)
(***************************************************************************)

\* the span with index id is in the list of spans of the current trace
InCurrentTrace(id) ==
    /\ current_trace # None
    /\ \E k \in 1..Len(traces[current_trace].spans) :
           traces[current_trace].spans[k] = id

\* C4: when the body of a span scope raises an exception while the span is
\* attached to the current trace, the span ends with status "error", its
\* error holds the text of the exception, end_time and duration_ms are
\* stamped, and the same exception leaves the scope.
C4_FailureRecordedAndReraised ==
    (lastExit.how = "exc" /\ InCurrentTrace(lastExit.span)) =>
        LET sp == spans[lastExit.span]
        IN  /\ sp.status = "error"
            /\ Contains(sp.error, lastExit.body.msg)
            /\ sp.end_time # None
            /\ sp.duration_ms # None
            /\ lastExit.out = "exc"
            /\ lastExit.outexc = lastExit.body

\* a scope whose span is in the current trace was just left by KeyError("x")
C4_Witness ==
    /\ lastExit.how = "exc"
    /\ lastExit.body = [type |-> "KeyError", msg |-> <<"x">>]
    /\ InCurrentTrace(lastExit.span)
    /\ spans[lastExit.span].error = <<"'", "x", "'">>

\* C5: with scopes opened one inside the other by one call chain, each span
\* has the span of the enclosing scope as parent (none for the outermost),
\* and get_current_span() is the span of the innermost scope still open
\* (none when no scope is open), at every depth.
C5_NestingFollowsScopes ==
    LET open == scopes[1]
    IN  /\ GetCurrentSpan(span_stack) = IF open = << >> THEN None ELSE Last(open)
        /\ \A i \in 1..Len(open) :
               spans[open[i]].parent_id = IF i = 1 THEN None ELSE open[i - 1]

\* A is open; B was opened inside A and C inside B, and both are closed again
C5_Witness ==
    /\ scopes[1] = <<1>>
    /\ Len(spans) = 3
    /\ spans[2].parent_id = 1 /\ spans[3].parent_id = 2
    /\ spans[2].status = "completed" /\ spans[3].status = "error"
    /\ GetCurrentSpan(span_stack) = 1

\* the spans whose scope is entered and not left
OpenSpans == UNION {{scopes[t][i] : i \in 1..Len(scopes[t])} : t \in DOMAIN scopes}

\* C6: span_stack holds exactly the spans whose scope is entered and not
\* left, the outermost (entered first) first; it is empty when no scope is
\* open.
C6_StackIsOpenScopes ==
    /\ {span_stack[i] : i \in 1..Len(span_stack)} = OpenSpans
    /\ \A i, j \in 1..Len(span_stack) : i < j => span_stack[i] < span_stack[j]
    /\ OpenSpans = {} => span_stack = << >>

\* C7: at every moment the aggregates of every trace equal a recomputation
\* over its spans as they are at that moment.
C7_AggregatesNeverDrift ==
    \A i \in 1..Len(traces) :
        Aggregates(traces[i]) = Recomputed(traces[i].spans)

\* the trace "task A" holds a completed llm_call span that was opened with
\* tokens_input=100, tokens_output=50, cost_usd=0.002 and a browser_action
\* span, opened after the first was closed, that failed with "nav failed",
\* and was ended with success=False, error="nav failed"
ScenarioDone ==
    /\ current_trace = 1
    /\ traces[1].task = "task A"
    /\ traces[1].spans = <<1, 2>>
    /\ span_stack = << >>
    /\ lastExit = NoExit
    /\ spans[1].parent_id = None /\ spans[2].parent_id = None
    /\ spans[1].span_type = "llm_call"
    /\ spans[1].metadata = [tokens_input |-> 100, tokens_output |-> 50, cost_usd |-> 200]
    /\ spans[1].status = "completed"
    /\ spans[2].span_type = "browser_action"
    /\ spans[2].status = "error"
    /\ spans[2].error = <<"nav failed">>
    /\ traces[1].end_time # None
    /\ traces[1].end_time >= spans[2].end_time
    /\ traces[1].success = FALSE
    /\ traces[1].error = <<"nav failed">>

\* C10: after the scenario get_summary() reports llm_calls=1,
\* actions_executed=1, total_tokens=150, total_cost_usd 0.002 (200 in
\* 1/100000 USD) and success=False.
C10_ScenarioSummary ==
    ScenarioDone =>
        LET sum == GetSummary(traces[1])
        IN  /\ sum.llm_calls = 1
            /\ sum.actions_executed = 1
            /\ sum.total_tokens = 150
            /\ sum.total_cost_usd = 200
            /\ sum.success = FALSE

\* C11: whenever span() creates a span with a parent, the parent's scope
\* was, just before the creation, entered and not left, its status was
\* "running", and it was the innermost (most recently entered) open span.
C11_ParentOpenAtCreation ==
    [][Len(spans') = Len(spans) + 1 =>
          LET p == spans'[Len(spans')].parent_id
          IN  p # None =>
                  /\ p \in OpenSpans
                  /\ spans[p].status = "running"
                  /\ \A q \in OpenSpans : q <= p]_vars

\* C12: a step of start_trace makes a fresh trace (a new identifier, no
\* spans, zero aggregates, end_time unset) the current trace and leaves
\* every trace that existed before, the open one included, as it was; the
\* tracer's current trace is always none or one of its traces.
C12_StartTraceFreshAndFrame ==
    [][/\ current_trace' \in {None} \cup (1..Len(traces'))
       /\ Len(traces') = Len(traces) + 1 =>
              LET new == traces'[Len(traces')]
              IN  /\ current_trace' = Len(traces')
                  /\ current_trace' \notin 1..Len(traces)
                  /\ new.spans = << >>
                  /\ Aggregates(new) = [total_tokens |-> 0, total_cost_usd |-> 0,
                                        llm_calls |-> 0, actions_executed |-> 0]
                  /\ new.start_time = now /\ new.end_time = None
                  /\ new.success = FALSE
                  /\ \A i \in 1..Len(traces) : traces'[i] = traces[i]]_vars

\* a second trace was started while the first, which holds a span, was not
\* ended: the second is current and empty, the first still open
C12_Witness ==
    /\ Len(traces) = 2
    /\ current_trace = 2
    /\ traces[2].spans = << >>
    /\ traces[1].end_time = None
    /\ traces[1].spans # << >>
    /\ traces[1].llm_calls = 1

\* the fields end_trace assigns
OutcomeOf(tr) ==
    [end_time |-> tr.end_time, success |-> tr.success,
     final_output |-> tr.final_output, error |-> tr.error]

\* C13: a step that changes the end_time, success, final_output or error of
\* a trace is end_trace acting on the current trace: it sets the four fields
\* to the time of the call and to the arguments of one call, and leaves the
\* spans and aggregates of the trace, the other traces, the spans and the
\* span stack alone.  With no current trace end_trace can be called and no
\* step of it changes any trace.
C13_EndTraceStampsOnly ==
    [][/\ (/\ Len(traces') = Len(traces)
           /\ \E i \in 1..Len(traces) : OutcomeOf(traces'[i]) # OutcomeOf(traces[i])) =>
              /\ current_trace # None
              /\ \E o \in Outcomes :
                     traces' = [traces EXCEPT ![current_trace] =
                                   [@ EXCEPT !.end_time = now, !.success = o.success,
                                             !.final_output = o.final_output,
                                             !.error = o.error]]
              /\ UNCHANGED <<now, spans, current_trace, span_stack, scopes, added>>
       /\ current_trace = None =>
              /\ \A o \in Outcomes : ENABLED EndTrace(o.success, o.final_output, o.error)
              /\ Len(traces') = Len(traces) => traces' = traces]_vars

\* the current trace holds a span that counted as an LLM call and was ended
\* with success=False, error="nav failed"
C13_Witness ==
    /\ current_trace # None
    /\ traces[current_trace].end_time # None
    /\ traces[current_trace].success = FALSE
    /\ traces[current_trace].error = <<"nav failed">>
    /\ traces[current_trace].llm_calls = 1
    /\ Len(traces[current_trace].spans) = 2

\* C14: when a span scope is left while the top of span_stack is not its
\* span (or the stack is empty), span_stack stays as it is and nothing but
\* what the body raised leaves the scope; a scope left by completion or by
\* an Exception still has its span stamped with status, end_time and
\* duration_ms.
C14_GuardLeavesStack ==
    [][(/\ lastExit'.span # None
        /\ (span_stack = << >> \/ Last(span_stack) # lastExit'.span)) =>
          LET sp == spans'[lastExit'.span]
          IN  /\ span_stack' = span_stack
              /\ lastExit'.out = (IF lastExit'.how = "ok" THEN "none" ELSE lastExit'.how)
              /\ lastExit'.outexc = lastExit'.body
              /\ lastExit'.how = "ok" => sp.status = "completed"
              /\ lastExit'.how = "exc" =>
                     sp.status = "error" /\ sp.error = Str(lastExit'.body)
              /\ lastExit'.how \in {"ok", "exc"} =>
                     sp.end_time = now /\ sp.duration_ms # None]_vars

\* a scope was just left by completion while another span was on top of the
\* stack: its span is stamped and still on the stack
C14_Witness ==
    /\ lastExit.span # None
    /\ lastExit.how = "ok"
    /\ spans[lastExit.span].status = "completed"
    /\ Len(span_stack) = 2
    /\ span_stack[1] = lastExit.span

\* C28: while a handler invoked by publish is running, its calls of
\* subscribe, unsubscribe and publish on the same bus can all run (the lock
\* is free and publish holds it at no point), the handler can finish, and
\* every publish that waits in gather has a step that brings it forward: a
\* handler to start or to finish, its own return, or the inner publish that
\* one of its handlers awaits.
C28_HandlerCallsDoNotDeadlock ==
    /\ ~Locked
    /\ \A c \in RunningHandlers :
          /\ \A t \in EventTypes, h \in Handlers :
                ENABLED Subscribe(t, h) /\ ENABLED Unsubscribe(t, h)
          /\ Len(pubs) < MaxPublish =>
                \A t \in EventTypes : ENABLED Publish(c, t)
          /\ ENABLED HandlerFinish(c[1], c[2], "returned")
    /\ \A p \in 1..Len(pubs) :
          pubs[p].pc = "gather" =>
              \/ \E h \in Handlers : ENABLED HandlerStart(p, h)
              \/ \E h \in Handlers : <<p, h>> \in RunningHandlers
              \/ ENABLED PublishReturn(p)
              \/ \E h \in Handlers, q \in (p + 1)..Len(pubs) :
                    /\ pubs[p].hst[h] = "awaiting"
                    /\ pubs[q].caller = <<p, h>>
                    /\ pubs[q].pc = "gather"

\* a handler published on the same bus while it ran; the inner publish had
\* handlers to wait for and returned, the handler finished, and the outer
\* publish returned
C28_Witness ==
    \E p \in 1..Len(pubs), h \in Handlers, q \in 1..Len(pubs) :
        /\ pubs[q].caller = <<p, h>>
        /\ pubs[q].fanout # {}
        /\ pubs[q].pc = "returned"
        /\ pubs[p].hst[h] = "returned"
        /\ pubs[p].pc = "returned"

\* C25: a trace on which end_trace has run is not changed by any later
\* step of the tracer: its list of spans, its aggregates, its end_time and
\* its outcome fields stay as end_trace left them.
C25_EndedTraceIsFrozen ==
    [][\A i \in 1..Len(traces) :
          traces[i].end_time # None => traces'[i] = traces[i]]_vars

\* C26: when the body of a span scope is ended by cancellation, the span is
\* left as it was (status "running", end_time and duration_ms unset), the
\* cancellation leaves the scope, and no later step of the tracer closes a
\* span whose scope was left that way.
C26_CancelledSpanStaysOpen ==
    [][/\ lastExit'.how = "cancel" =>
              LET sp == spans'[lastExit'.span]
              IN  /\ sp.status = "running"
                  /\ sp.end_time = None
                  /\ sp.duration_ms = None
                  /\ lastExit'.out = "cancel"
       /\ \A s \in 1..Len(spans) :
              (s \notin OpenSpans /\ spans[s].status = "running") =>
                  spans'[s] = spans[s]]_vars

\* a scope whose span is in the current trace was left by cancellation, the
\* trace was ended afterwards, and the span is still "running"
C26_Witness ==
    /\ \E s \in 1..Len(spans) :
           /\ s \notin OpenSpans
           /\ InCurrentTrace(s)
           /\ spans[s].status = "running"
           /\ spans[s].end_time = None
    /\ span_stack = << >>
    /\ traces[current_trace].end_time # None

\* C27: in every trace, each span that has a parent has it in the same
\* trace's list of spans, at an earlier position.
C27_SpansFormClosedTree ==
    \A i \in 1..Len(traces) :
        \A k \in 1..Len(traces[i].spans) :
            LET p == spans[traces[i].spans[k]].parent_id
            IN  p # None => \E j \in 1..(k - 1) : traces[i].spans[j] = p

-----------------------------------------------------------------------------
(***************************************************************************)
(* Claims about the life cycle of the bus (checked under SpecLife)         *)
(***************************************************************************)

\* C21: whenever a call of stop_processing returns, it has not raised, the
\* bus holds no processing task, and every processing loop that was ever
\* started has terminated.
C21_StopLeavesNoLoop ==
    [][lastCall'.op = "stop" =>
          /\ ~lastCall'.raised
          /\ processing_task' = None
          /\ \A k \in 1..Len(ptasks') : ptasks'[k].st \in Terminated]_vars

\* C22: a call of close comes to the connection only when its
\* stop_processing part is over (the bus then holds no processing task and
\* the task the call cancelled has terminated); the connection is released
\* only by such a call and only on a bus whose backend is "redis" and whose
\* client was created; and no call of close raises.
C22_CloseStopsThenReleases ==
    [][/\ \A c \in Coroutines :
              (callers'[c].pc = "release" /\ callers[c].pc # "release") =>
                  /\ processing_task' = None
                  /\ callers'[c].task # None =>
                         ptasks'[callers'[c].task].st \in Terminated
       /\ closed' # closed =>
              /\ closed' = closed + 1
              /\ backend = "redis" /\ redis
              /\ \E c \in Coroutines :
                     /\ callers[c].pc = "release"
                     /\ callers'[c].pc = "idle"
                     /\ callers[c].task # None =>
                            ptasks[callers[c].task].st \in Terminated
       /\ lastCall'.op = "close" =>
              /\ ~lastCall'.raised
              /\ ~(backend = "redis" /\ redis) => closed' = closed]_vars

\* a close that cancelled a running processing loop has released the
\* connection and returned
C22_Witness ==
    /\ lastCall.op = "close"
    /\ ~lastCall.raised
    /\ closed = 1
    /\ lastCall.task # None
    /\ ptasks[lastCall.task].st = "done"

\* C23: get_event_bus constructs at most one bus; every call returns that
\* bus; the bus is constructed with the backend the environment names at
\* the call that constructs it; and once the bus exists no step changes
\* which bus the global names, the backend it was asked for or its backend.
C23_OneGlobalBus ==
    [][/\ created' <= 1
       /\ lastCall'.op = "get" => (lastCall'.ret = 1 /\ event_bus' = 1)
       /\ (event_bus = None /\ event_bus' # None) =>
              (requested' = env /\ created' = 1)
       /\ event_bus # None =>
              /\ event_bus' = event_bus
              /\ created' = created
              /\ requested' = requested
              /\ backend' = backend]_vars

\* the environment was changed after the bus was constructed, and a later
\* call of get_event_bus has returned the bus with its first backend
C23_Witness ==
    /\ lastCall.op = "get"
    /\ lastCall.ret = 1
    /\ event_bus = 1
    /\ env # requested

-----------------------------------------------------------------------------
(***************************************************************************)
(* Claims about the cost calculator (checked under SpecCost)               *)
(***************************************************************************)

\* C24: the call for "gpt-4o-mini" with a million input and a million
\* output tokens returns 0.75 USD, and a call whose normalised model name
\* no entry of the table matches, exactly or by substring, returns 0.
C24_MiniScenarioAndUnknownModel ==
    \A k \in 1..Len(cost_calls) :
        LET c == cost_calls[k]
        IN  /\ (/\ c.model = GPT4oMini
                /\ c.input_tokens = Million
                /\ c.output_tokens = Million) => c.result = 750 * Million
            /\ (/\ ExactMatches(Strip(Lower(c.model))) = {}
                /\ FuzzyMatches(Strip(Lower(c.model))) = {}) => c.result = 0

\* both calls of the scenario were made: the one that returns 0.75 USD and
\* one for a model nothing matches, with tokens both ways
C24_Witness ==
    \E i, j \in 1..Len(cost_calls) :
        /\ cost_calls[i].model = GPT4oMini
        /\ cost_calls[i].input_tokens = Million
        /\ cost_calls[i].output_tokens = Million
        /\ cost_calls[i].result = 750 * Million
        /\ cost_calls[j].model = UnknownModel
        /\ cost_calls[j].input_tokens > 0
        /\ cost_calls[j].output_tokens > 0
        /\ cost_calls[j].result = 0

\* C30: for a model name that is an entry of the table and any token
\* counts, zero included, the cost is input tokens times the input price
\* plus output tokens times the output price.
C30_CostIsLinear ==
    \A k \in 1..Len(cost_calls) :
        LET c == cost_calls[k]
        IN  ExactMatches(c.model) # {} =>
                LET p == LLM_PRICING[First(ExactMatches(c.model))]
                IN  c.result = c.input_tokens * p.input + c.output_tokens * p.output

-----------------------------------------------------------------------------
(***************************************************************************)
(* Claims about the MCP client of the controller (checked under SpecMcp)   *)
(***************************************************************************)

\* C29: after every call of setup_mcp_client, close_mcp_client and
\* reload_mcp_client, a controller that holds no client has no action whose
\* name starts with "mcp."; and after reload_mcp_client the "mcp." actions
\* are the tools of the client held now and the other actions are as before.
C29_McpToolsOnlyWithClient ==
    [][/\ mcp_client' = NoneCfg => \A a \in actions' : ~StartsWithMcp(a)
       /\ mcp_op' = "reload" =>
              /\ {a \in actions' : StartsWithMcp(a)} = RegisteredNames(mcp_client')
              /\ {a \in actions' : ~StartsWithMcp(a)} =
                     {a \in actions : ~StartsWithMcp(a)}]_vars

-----------------------------------------------------------------------------
(***************************************************************************)
(* Specifications                                                          *)
(***************************************************************************)

BusInit ==
    /\ ExtIdle
    /\ BusIdle
    /\ TraceIdle

BusNext ==
    \/ \E t \in EventTypes, h \in Handlers : Subscribe(t, h)
    \/ \E t \in EventTypes, h \in Handlers : Unsubscribe(t, h)
    \/ \E c \in Callers, t \in EventTypes : Publish(c, t)
    \/ \E p \in 1..Len(pubs), h \in Handlers : HandlerStart(p, h)
    \/ \E p \in 1..Len(pubs), h \in Handlers, o \in Finished : HandlerFinish(p, h, o)
    \/ \E p \in 1..Len(pubs) : PublishReturn(p)

SpecBus == BusInit /\ [][BusNext]_vars

\* a bus constructed with backend="redis", however _init_redis ended
BusRedisInit ==
    /\ ExtIdle
    /\ subscribers = << >>
    /\ lock = FALSE
    /\ pubs = << >>
    /\ rpubs = << >>
    /\ requested = "redis"
    /\ \E o \in InitOutcomes :
           /\ backend = EventBusInit(requested, o).backend
           /\ redis = EventBusInit(requested, o).redis
    /\ TraceIdle

BusRedisNext ==
    \/ BusNext
    \/ \E ev \in Events : PublishRedis(ev)
    \/ \E i \in 1..Len(rpubs), o \in {"ok", "fail", "cancel"} : SendDone(i, o)

SpecBusRedis == BusRedisInit /\ [][BusRedisNext]_vars

\* one ExecutionTrace used directly: spans are constructed and added
TraceInit ==
    /\ ExtIdle
    /\ BusIdle
    /\ now = 1
    /\ spans = << >>
    /\ traces = <<ExecutionTrace("task A", 1)>>
    /\ current_trace = None
    /\ span_stack = << >>
    /\ scopes = << >>
    /\ lastExit = NoExit
    /\ added = << << >> >>

TraceNext ==
    \/ \E ty \in SpanTypes, llm \in LLMValues : NewSpan(ty, llm)
    \/ \E s \in 1..Len(spans) : TraceAddSpan(s)

SpecTrace == TraceInit /\ [][TraceNext]_vars

\* one TraceSpan used directly: constructed with any start_time, then
\* completed and errored any number of times
SpanInit ==
    /\ ExtIdle
    /\ BusIdle
    /\ now = 1
    /\ \E ty \in SpanTypes, st \in 0..MaxClock :
           spans = <<TraceSpan(None, ty, st, NoLLM, NoLLM)>>
    /\ traces = << >>
    /\ current_trace = None
    /\ span_stack = << >>
    /\ scopes = << >>
    /\ lastExit = NoExit
    /\ added = << >>

SpanNext ==
    \/ Tick
    \/ \E s \in 1..Len(spans) : SpanComplete(s)
    \/ \E s \in 1..Len(spans), e \in Failures : SpanErrorOut(s, e)

SpecSpan == SpanInit /\ [][SpanNext]_vars


\* one AgentTracer used by the coroutines T
TracerInit ==
    /\ ExtIdle
    /\ BusIdle
    /\ now = 1
    /\ spans = << >>
    /\ traces = << >>
    /\ current_trace = None
    /\ span_stack = << >>
    /\ scopes = [t \in Tasks |-> << >>]
    /\ lastExit = NoExit
    /\ added = << >>

\* the steps of the coroutines T, which open at most maxSpans span scopes
\* with the calls in calls and start at most MaxTraces traces
TracerNext(T, calls, maxSpans) ==
    \/ Tick
    \/ Len(traces) < MaxTraces /\ StartTrace("task A")
    \/ \E o \in Outcomes : EndTrace(o.success, o.final_output, o.error)
    \/ \E t \in T, c \in calls :
           Len(spans) < maxSpans /\ SpanEnter(t, c.span_type, c.kwargs)
    \/ \E t \in T, llm \in FillValues : SetLLMFields(t, llm)
    \/ \E t \in T : SpanExit(t, "ok", NoFailure)
    \/ \E t \in T, e \in BodyFailures : SpanExit(t, "exc", e)
    \/ \E t \in T : SpanExit(t, "cancel", NoFailure)

\* the tracer shared by several coroutines
SpecTracer == TracerInit /\ [][TracerNext(Tasks, SpanCalls, MaxSpans)]_vars

\* the tracer driven by one call chain, which nests its scopes deeper
SpecTracerSeq == TracerInit /\ [][TracerNext({1}, ToolCalls, MaxNest)]_vars

\* the tracer shared by several coroutines that nest their scopes deeper
SpecTracerShared == TracerInit /\ [][TracerNext(Tasks, ToolCalls, MaxNest)]_vars

\* the steps of one call chain that starts up to MaxStarts traces, ending
\* them or not, and opens up to MaxSpans span scopes
TracerLifeNext ==
    \/ Tick
    \/ Len(traces) < MaxStarts /\ StartTrace("task A")
    \/ \E o \in Outcomes : EndTrace(o.success, o.final_output, o.error)
    \/ \E c \in SpanCalls :
           Len(spans) < MaxSpans /\ SpanEnter(1, c.span_type, c.kwargs)
    \/ SpanExit(1, "ok", NoFailure)
    \/ \E e \in BodyFailures : SpanExit(1, "exc", e)
    \/ SpanExit(1, "cancel", NoFailure)

\* the tracer used for several traces, one after the other
SpecTracerLife == TracerInit /\ [][TracerLifeNext]_vars


\* the process before get_event_bus is called, with either backend named
\* by the environment
LifeInit ==
    /\ BusIdle
    /\ TraceIdle
    /\ CostIdle
    /\ McpIdle
    /\ env \in BackendNames
    /\ event_bus = None
    /\ created = 0
    /\ processing_task = None
    /\ ptasks = << >>
    /\ callers = [c \in Coroutines |-> IdleCaller]
    /\ closed = 0
    /\ lastCall = NoCall

LifeNext ==
    \/ \E v \in BackendNames : SetEnv(v)
    \/ \E o \in InitOutcomes : GetEventBus(o)
    \/ StartProcessing
    \/ \E c \in Coroutines, op \in {"stop", "close"} : StopCall(c, op)
    \/ \E k \in 1..Len(ptasks) : TaskRun(k)
    \/ \E k \in 1..Len(ptasks) : TaskCancelled(k)
    \/ \E c \in Coroutines : StopResume(c)
    \/ \E c \in Coroutines : ReleaseDone(c)

\* the global bus, its processing loop and the coroutines that stop it
SpecLife == LifeInit /\ [][LifeNext]_vars

CostInit ==
    /\ BusIdle
    /\ TraceIdle
    /\ LifeIdle
    /\ McpIdle
    /\ CostIdle

CostNext ==
    \E c \in CostInputs : Calculate(c[1], c[2], c[3])

\* calculate_llm_cost called with the inputs of CostInputs
SpecCost == CostInit /\ [][CostNext]_vars

McpInit ==
    /\ BusIdle
    /\ TraceIdle
    /\ LifeIdle
    /\ CostIdle
    /\ McpIdle

McpNext ==
    \/ \E config \in Configs \cup {NoneCfg}, file \in Configs \cup {NoneCfg},
          o \in {"ok", "fail"} : SetupMcpClient(config, file, o)
    \/ CloseMcpClient
    \/ \E config \in Configs \cup {NoneCfg}, file \in Configs \cup {NoneCfg},
          o \in {"ok", "fail"} : ReloadMcpClient(config, file, o)

\* one CustomController whose MCP client is set up, closed and reloaded
SpecMcp == McpInit /\ [][McpNext]_vars

=============================================================================
